---- MODULE Spec2Model ----
(***************************************************************************)
(* Model of the protocol session of package session: the dispatch loop     *)
(* (handlePackets), the inbound handlers, the outbound senders, Close and   *)
(* the parameter type mapping valueToParamType.                             *)
(*                                                                          *)
(* Threads: the dispatch loop (loopPc), one server thread that calls the    *)
(* public API (srvPc), and the peer, which sends packets or drops the       *)
(* connection.  The Controllable, the Connection, the command registry and  *)
(* the chat sink are collaborators; the model records the calls made on     *)
(* them.                                                                    *)
(***************************************************************************)
EXTENDS Integers, Sequences, FiniteSets, TLC

\* ------------------------------------------------------------------ bounds
MaxPackets == 2
MaxCalls == 2
MaxDirectClose == 1
MaxMessages == 2
MaxErrors == 2
MaxParams == 2

\* --------------------------------------------------------------- constants
OutputType == 3

TextTypeRaw == "raw"
TextTypeChat == "chat"
TextTypePopup == "popup"
TextTypeJukeboxPopup == "jukebox_popup"
TextTypeAnnouncement == "announcement"

TitleActionSetTitle == "set_title"
TitleActionSetSubtitle == "set_subtitle"
TitleActionSetActionBar == "set_action_bar"

DimensionOverworld == "overworld"
DimensionNether == "nether"
DimensionEnd == "end"

CommandArgTypeInt == "int"
CommandArgTypeFloat == "float"
CommandArgTypeValue == "value"
CommandArgTypeTarget == "target"
CommandArgTypeString == "string"
CommandArgTypePosition == "position"
NoArgType == "zero"

\* ------------------------------------------------------------ input values
\* s.conn.IdentityData().DisplayName
DisplayName == "Alice"

SourceNames == {"Alice", "Bob"}
ChatMessages == {"hi"}
CommandLines == {"/give", "/say"}

\* protocol.CommandOrigin is a struct of several fields; two of them are kept
\* so that a read that overlaps the assignment at handleCommandRequest can
\* observe a mix of the old and the new value.
ZeroOrigin == <<0, "">>
Origins == {<<1, "a">>, <<2, "b">>}

NoOrigin == <<0, "none">>

NoPacket == [id |-> "None"]

TextPackets ==
    { [id |-> "Text", TextType |-> tt, SourceName |-> sn, Message |-> m] :
        tt \in {TextTypeChat, TextTypeRaw}, sn \in SourceNames, m \in ChatMessages }

CommandRequestPacket(b, o, l) ==
    [id |-> "CommandRequest", Internal |-> b, CommandOrigin |-> o, CommandLine |-> l]

CommandRequestPackets ==
    { CommandRequestPacket(FALSE, o, l) : o \in Origins, l \in CommandLines }
    \cup { CommandRequestPacket(TRUE, <<1, "a">>, "/give") }

OtherPackets == { [id |-> "MovePlayer"] }

InboundPackets == TextPackets \cup CommandRequestPackets \cup OtherPackets

DisconnectMessages == {"", "banned"}
OutMessages == {"hello"}

\* cmd.Output: the success messages and the errors of a command execution.
SeqsUpTo(S, n) == UNION { [1..k -> S] : k \in 0..n }

OutputTexts == {"m1", "m2"}
OutputErrors == {"E1", "E2"}

Outputs ==
    { [messages |-> ms, errors |-> es] :
        ms \in SeqsUpTo(OutputTexts, MaxMessages), es \in SeqsUpTo(OutputErrors, MaxErrors) }

\* err.Error(): the text of an error value.
ErrorText(e) == IF e = "E1" THEN "no such player" ELSE "bad argument"

MessageCount(output) == Len(output.messages)
ErrorCount(output) == Len(output.errors)

\* ------------------------------------------------------- inbound handlers
\* handleText with the comparison of the source name inverted.
handleTextErr_SourceInverted(p) ==
    IF p.TextType # TextTypeChat THEN TRUE
    ELSE IF p.SourceName = DisplayName THEN TRUE
    ELSE FALSE

\* handleText without the comparison of the source name.
handleTextErr_NoSourceCheck(p) == p.TextType # TextTypeChat

\* handleText returns an error unless the text type is chat and the source
\* name is the display name of the connection.
handleTextErr(p) ==
    IF p.TextType # TextTypeChat THEN TRUE
    ELSE IF p.SourceName # DisplayName THEN TRUE
    ELSE FALSE

\* handleCommandRequest without the test of the internal field.
handleCommandRequestErr_NoCheck(p) == FALSE

\* handleCommandRequest returns an error when the internal field is set.
handleCommandRequestErr(p) == p.Internal

\* ------------------------------------------------------- outbound packets
TextPacket(tt, m) == [id |-> "Text", TextType |-> tt, SourceName |-> "", Message |-> m]

SendMessagePacket(m) == TextPacket(TextTypeRaw, m)
SendTipPacket(m) == TextPacket(TextTypePopup, m)
SendAnnouncementPacket(m) == TextPacket(TextTypeAnnouncement, m)
SendPopupPacket(m) == TextPacket(TextTypePopup, m)
SendJukeBoxPopupPacket(m) == TextPacket(TextTypeJukeboxPopup, m)

SetTitlePacket(action, t, fadeIn, remain, fadeOut) ==
    [id |-> "SetTitle", ActionType |-> action, Text |-> t, FadeInDuration |-> fadeIn,
     RemainDuration |-> remain, FadeOutDuration |-> fadeOut]

SendTitlePacket(t, fi, re, fo) == SetTitlePacket(TitleActionSetTitle, t, fi, re, fo)
SendSubTitlePacket(t, fi, re, fo) == SetTitlePacket(TitleActionSetSubtitle, t, fi, re, fo)
SendActionBarMessagePacket(t, fi, re, fo) == SetTitlePacket(TitleActionSetActionBar, t, fi, re, fo)

ChangeDimensionPacket(d) ==
    [id |-> "ChangeDimension", Dimension |-> d, Position |-> <<0, 0, 0>>, Respawn |-> FALSE]

\* Disconnect with the hide flag set for a non-empty message.
DisconnectPacket_HideWhenShown(message) ==
    [id |-> "Disconnect", HideDisconnectionScreen |-> (message # ""), Message |-> message]

DisconnectPacket(message) ==
    [id |-> "Disconnect", HideDisconnectionScreen |-> (message = ""), Message |-> message]

\* uint16(port)
TransferPacket(ip, port) == [id |-> "Transfer", Address |-> ip, Port |-> port % 65536]

\* The entries of a command output: the success messages, then the errors.
CommandOutputMessages(output) ==
    [i \in 1..Len(output.messages) |-> [Success |-> TRUE, Message |-> output.messages[i]]]
    \o
    [i \in 1..Len(output.errors) |-> [Success |-> FALSE, Message |-> ErrorText(output.errors[i])]]

\* SendCommandOutput with the success count taken from the number of entries.
CommandOutputPacket_CountsEntries(output, origin) ==
    [id |-> "CommandOutput",
     CommandOrigin |-> origin,
     OutputType |-> OutputType,
     SuccessCount |-> Len(CommandOutputMessages(output)),
     OutputMessages |-> CommandOutputMessages(output)]

\* uint32(output.MessageCount()): the count is the length of a slice, which
\* the conversion leaves as it is.
CommandOutputPacket(output, origin) ==
    [id |-> "CommandOutput",
     CommandOrigin |-> origin,
     OutputType |-> OutputType,
     SuccessCount |-> MessageCount(output),
     OutputMessages |-> CommandOutputMessages(output)]

\* ----------------------------------------------------- parameter mapping
ZeroEnum == [Type |-> "", Options |-> <<>>]

BoolEnum == [Type |-> "bool", Options |-> <<"true", "1", "false", "0">>]

IntKinds == {"int", "uint64"}
FloatKinds == {"float32", "float64"}

ParamTypeNames == {"player", "target", "gamemode"}
EnumOptionLists == {<<>>, <<"survival", "creative">>}

\* A parameter value: its dynamic type (kind), whether that type implements
\* cmd.Parameter and cmd.Enum, and what its Type() and Options() return.
BasicValue(k) == [kind |-> k, isParameter |-> FALSE, isEnum |-> FALSE, Type |-> "", Options |-> <<>>]

BasicValues == { BasicValue(k) : k \in IntKinds \cup FloatKinds \cup {"string", "bool", "vec3"} }

StructValues ==
    { BasicValue("struct") }
    \cup { [kind |-> "struct", isParameter |-> TRUE, isEnum |-> FALSE, Type |-> t, Options |-> <<>>] :
            t \in ParamTypeNames }
    \cup { [kind |-> "struct", isParameter |-> p, isEnum |-> TRUE, Type |-> t, Options |-> o] :
            p \in BOOLEAN, t \in ParamTypeNames, o \in EnumOptionLists }

ParamValues == BasicValues \cup StructValues

ParamResult(t, enum) == [panic |-> FALSE, t |-> t, enum |-> enum]
ParamPanic == [panic |-> TRUE, t |-> NoArgType, enum |-> ZeroEnum]

\* The condition of the first if after the type switch:
\*   ok && param.Type() == "player" || param.Type() == "target"
\* groups as (ok && ...) || ...; when the assertion fails param is nil and
\* the right operand calls a method on it.
TargetTest(i) ==
    IF i.isParameter /\ i.Type = "player" THEN "true"
    ELSE IF ~i.isParameter THEN "panic"
    ELSE IF i.Type = "target" THEN "true"
    ELSE "false"

valueToParamType(i) ==
    IF i.kind \in IntKinds THEN ParamResult(CommandArgTypeInt, ZeroEnum)
    ELSE IF i.kind \in FloatKinds THEN ParamResult(CommandArgTypeFloat, ZeroEnum)
    ELSE IF i.kind = "string" THEN ParamResult(CommandArgTypeString, ZeroEnum)
    ELSE IF i.kind = "bool" THEN ParamResult(NoArgType, BoolEnum)
    ELSE IF i.kind = "vec3" THEN ParamResult(CommandArgTypePosition, ZeroEnum)
    ELSE IF TargetTest(i) = "panic" THEN ParamPanic
    ELSE IF TargetTest(i) = "true" THEN ParamResult(CommandArgTypeTarget, ZeroEnum)
    ELSE IF i.isEnum THEN ParamResult(NoArgType, [Type |-> i.Type, Options |-> i.Options])
    ELSE ParamResult(CommandArgTypeValue, ZeroEnum)

\* One protocol.CommandParameter, as the inner loop of SendAvailableCommands
\* builds it: the type is OR-ed with the valid bit.
CommandParameter(paramInfo) ==
    LET r == valueToParamType(paramInfo.Value)
    IN  [Name |-> paramInfo.Name,
         Type |-> [base |-> r.t, valid |-> TRUE],
         Optional |-> paramInfo.Optional,
         CollapseEnumOptions |-> (paramInfo.Value.kind = "bool"),
         Enum |-> r.enum,
         Suffix |-> paramInfo.Suffix]

ParamInfo(v) == [Name |-> "arg", Value |-> v, Optional |-> FALSE, Suffix |-> ""]

\* ------------------------------------------------------ command catalog
\* cmd.Commands(): a map from name or alias to command.
Perms(S) == { f \in [1..Cardinality(S) -> S] : \A a \in S : \E k \in 1..Cardinality(S) : f[k] = a }

Overloads(c) ==
    [n \in 1..Len(c.Params) |->
        [Parameters |-> [j \in 1..Len(c.Params[n]) |-> CommandParameter(c.Params[n][j])]]]

CommandPanics(c) ==
    \E n \in 1..Len(c.Params) : \E j \in 1..Len(c.Params[n]) :
        valueToParamType(c.Params[n][j].Value).panic

ProtocolCommand(c) ==
    [Name |-> c.Name, Description |-> c.Description, Aliases |-> c.Aliases, Overloads |-> Overloads(c)]

\* Entries whose key is not the name of the command are skipped.
KeptKeys(commands, order) == SelectSeq(order, LAMBDA alias : commands[alias].Name = alias)

AvailableCommandsPanics(commands) ==
    \E alias \in DOMAIN commands : commands[alias].Name = alias /\ CommandPanics(commands[alias])

AvailableCommandsPacket(commands, order) ==
    LET kept == KeptKeys(commands, order)
    IN  [id |-> "AvailableCommands",
         Commands |-> [n \in 1..Len(kept) |-> ProtocolCommand(commands[kept[n]])]]

TpCommand ==
    [Name |-> "tp", Description |-> "teleports", Aliases |-> <<"teleport">>,
     Params |-> << <<ParamInfo(BasicValue("vec3"))>>,
                   <<ParamInfo([kind |-> "struct", isParameter |-> TRUE, isEnum |-> FALSE,
                                Type |-> "target", Options |-> <<>>])>> >>]

GameModeCommand ==
    [Name |-> "gamemode", Description |-> "sets the game mode", Aliases |-> <<"gm">>,
     Params |-> << <<ParamInfo([kind |-> "struct", isParameter |-> FALSE, isEnum |-> TRUE,
                                Type |-> "gamemode", Options |-> <<"survival", "creative">>])>> >>]

Catalogs ==
    { ("tp" :> TpCommand) @@ ("teleport" :> TpCommand),
      ("gamemode" :> GameModeCommand) @@ ("gm" :> GameModeCommand) }

\* Outputs the session specification sends.
SessionOutputs ==
    { [messages |-> <<"m1">>, errors |-> <<>>], [messages |-> <<>>, errors |-> <<"E1">>] }

NoOutput == [messages |-> <<>>, errors |-> <<>>]

VARIABLES
    loopPc,             \* position of handlePackets
    pk,                 \* the packet the loop read last
    exitBy,             \* why handlePackets returned
    controllableClosed, \* s.controllableClosed
    cmdOrigin,          \* s.cmdOrigin
    inbox,              \* packet the peer has sent and the loop has not read
    peerGone,           \* the peer dropped the connection
    sent,               \* packets the peer has sent
    srvPc,              \* position of the server thread inside a public call
    srvArg,             \* argument of the call the server thread is inside
    srvErr,             \* the error Disconnect's write returned, until Disconnect returns
    calls,              \* public calls the server thread has made
    chatCount,          \* calls of Controllable.Chat
    lastChat,           \* the text of the last call of Controllable.Chat
    execCount,          \* calls of Controllable.ExecuteCommand
    lastExec,           \* the line of the last call of Controllable.ExecuteCommand
    lastAccepted,       \* origin of the last command request that passed validation
    pendingExec,        \* executions whose output has not been sent
    cCloseCalls,        \* calls of Controllable.Close
    connCloseCalls,     \* calls of Connection.Close
    leftAnnounced,      \* "has left the game" lines printed to the chat sink
    closeCalls,         \* calls of Session.Close
    directCloses,       \* calls of Session.Close made by the server thread
    lastWrite,          \* the last call of Connection.WritePacket
    writeCount,         \* calls of Connection.WritePacket
    commands,           \* the registry cmd.Commands() returns
    crashed,            \* a panic ended the process
    params,             \* a parameter list given to the mapping
    overload,           \* the parameters built from params so far
    panicked,           \* valueToParamType panicked on a parameter of params
    output,             \* a command output given to the packet construction
    outPacket           \* the packet built from output

loopVars == <<loopPc, pk, exitBy>>
peerVars == <<inbox, peerGone, sent>>
srvVars == <<srvPc, srvArg, srvErr, calls>>
closeVars == <<cCloseCalls, connCloseCalls, leftAnnounced, closeCalls, directCloses>>
writeVars == <<lastWrite, writeCount>>
chatVars == <<chatCount, lastChat>>
execVars == <<execCount, lastExec>>
callVars == <<chatVars, execVars, lastAccepted, pendingExec>>
sessionVars == <<loopVars, controllableClosed, cmdOrigin, peerVars, srvVars, callVars,
                 closeVars, writeVars, commands, crashed>>
paramVars == <<params, overload, panicked>>
outputVars == <<output, outPacket>>

vars == <<sessionVars, paramVars, outputVars>>

ConnClosed == connCloseCalls > 0

\* New: the closed flag is stored false; the origin is the zero value.
SessionInit ==
    /\ loopPc = "idle"
    /\ pk = NoPacket
    /\ exitBy = "none"
    /\ controllableClosed = FALSE
    /\ cmdOrigin = ZeroOrigin
    /\ inbox = NoPacket
    /\ peerGone = FALSE
    /\ sent = 0
    /\ srvPc = "idle"
    /\ srvArg = ""
    /\ srvErr = FALSE
    /\ calls = 0
    /\ chatCount = 0
    /\ lastChat = ""
    /\ execCount = 0
    /\ lastExec = ""
    /\ lastAccepted = NoOrigin
    /\ pendingExec = {}
    /\ cCloseCalls = 0
    /\ connCloseCalls = 0
    /\ leftAnnounced = 0
    /\ closeCalls = 0
    /\ directCloses = 0
    /\ lastWrite = NoPacket
    /\ writeCount = 0
    /\ crashed = FALSE

ParamIdle == params = <<>> /\ overload = <<>> /\ panicked = FALSE
OutputIdle == output = NoOutput /\ outPacket = NoPacket

Init ==
    /\ SessionInit
    /\ commands \in Catalogs
    /\ ParamIdle
    /\ OutputIdle

\* s.conn.WritePacket(p); the error it returns is discarded by every caller.
WritePacket(p) ==
    /\ lastWrite' = p
    /\ writeCount' = writeCount + 1

\* Session.Close: closes the controllable and the connection and announces
\* the departure.
Close ==
    /\ cCloseCalls' = cCloseCalls + 1
    /\ connCloseCalls' = connCloseCalls + 1
    /\ leftAnnounced' = leftAnnounced + 1
    /\ closeCalls' = closeCalls + 1

\* ------------------------------------------------------------- the peer
PeerSend ==
    /\ ~crashed
    /\ inbox = NoPacket
    /\ ~peerGone
    /\ ~ConnClosed
    /\ sent < MaxPackets
    /\ \E p \in InboundPackets : inbox' = p
    /\ sent' = sent + 1
    /\ UNCHANGED <<loopVars, controllableClosed, cmdOrigin, peerGone, srvVars, callVars,
                   closeVars, writeVars, commands, crashed, paramVars, outputVars>>

PeerDisconnect ==
    /\ ~crashed
    /\ ~peerGone
    /\ peerGone' = TRUE
    /\ UNCHANGED <<loopVars, controllableClosed, cmdOrigin, inbox, sent, srvVars, callVars,
                   closeVars, writeVars, commands, crashed, paramVars, outputVars>>

\* ----------------------------------------------------- the dispatch loop
\* s.conn.ReadPacket(): blocks until a packet is there or the connection
\* fails.
LoopReadPacket ==
    /\ ~crashed
    /\ loopPc = "read"
    /\ inbox # NoPacket
    /\ pk' = inbox
    /\ inbox' = NoPacket
    /\ loopPc' = "check"
    /\ UNCHANGED <<exitBy, controllableClosed, cmdOrigin, peerGone, sent, srvVars, callVars,
                   closeVars, writeVars, commands, crashed, paramVars, outputVars>>

\* handlePackets with the return on a read error not covered by the deferred
\* Close.
LoopReadError_SkipsClose ==
    /\ ~crashed
    /\ loopPc = "read"
    /\ ConnClosed \/ (peerGone /\ inbox = NoPacket)
    /\ pk' = NoPacket
    /\ loopPc' = "done"
    /\ exitBy' = "readError"
    /\ UNCHANGED <<controllableClosed, cmdOrigin, peerVars, srvVars, callVars,
                   closeVars, writeVars, commands, crashed, paramVars, outputVars>>

\* s.conn.ReadPacket() returns an error: the loop returns.
LoopReadError ==
    /\ ~crashed
    /\ loopPc = "read"
    /\ ConnClosed \/ (peerGone /\ inbox = NoPacket)
    /\ pk' = NoPacket
    /\ loopPc' = "close"
    /\ exitBy' = "readError"
    /\ UNCHANGED <<controllableClosed, cmdOrigin, peerVars, srvVars, callVars,
                   closeVars, writeVars, commands, crashed, paramVars, outputVars>>

\* handlePackets without the test of the closed flag.
LoopCheckClosed_NoCheck ==
    /\ ~crashed
    /\ loopPc = "check"
    /\ loopPc' = "dispatch"
    /\ UNCHANGED <<pk, exitBy, controllableClosed, cmdOrigin, peerVars, srvVars, callVars,
                   closeVars, writeVars, commands, crashed, paramVars, outputVars>>

\* if s.controllableClosed.Load().(bool) { return }
LoopCheckClosed ==
    /\ ~crashed
    /\ loopPc = "check"
    /\ IF controllableClosed
         THEN loopPc' = "close" /\ exitBy' = "closedFlag"
         ELSE loopPc' = "dispatch" /\ UNCHANGED exitBy
    /\ UNCHANGED <<pk, controllableClosed, cmdOrigin, peerVars, srvVars, callVars,
                   closeVars, writeVars, commands, crashed, paramVars, outputVars>>

\* handlePacket, case *packet.Text
LoopHandleText ==
    /\ ~crashed
    /\ loopPc = "dispatch"
    /\ pk.id = "Text"
    /\ IF handleTextErr(pk)
         THEN loopPc' = "close" /\ exitBy' = "handlerError" /\ UNCHANGED <<pk, chatVars>>
         ELSE /\ chatCount' = chatCount + 1
              /\ lastChat' = pk.Message
              /\ loopPc' = "read"
              /\ pk' = NoPacket
              /\ UNCHANGED exitBy
    /\ UNCHANGED <<controllableClosed, cmdOrigin, peerVars, srvVars, execVars, lastAccepted,
                   pendingExec, closeVars, writeVars, commands, crashed, paramVars, outputVars>>

\* The values a read of s.cmdOrigin can return while the assignment of new
\* over old is under way.
TornOrigins(old, new) == { <<new[1], old[2]>>, <<old[1], new[2]>> }

\* handleCommandRequest with the assignment of the origin placed before the
\* test of the internal flag.
LoopHandleCommandRequest_RecordFirst ==
    /\ ~crashed
    /\ loopPc = "dispatch"
    /\ pk.id = "CommandRequest"
    /\ IF handleCommandRequestErr(pk)
         THEN /\ loopPc' = "close"
              /\ exitBy' = "handlerError"
              /\ cmdOrigin' = pk.CommandOrigin
              /\ UNCHANGED lastAccepted
         ELSE /\ cmdOrigin' \in TornOrigins(cmdOrigin, pk.CommandOrigin)
              /\ lastAccepted' = pk.CommandOrigin
              /\ loopPc' = "record"
              /\ UNCHANGED exitBy
    /\ UNCHANGED <<pk, controllableClosed, peerVars, srvVars, chatVars, execVars,
                   pendingExec, closeVars, writeVars, commands, crashed, paramVars, outputVars>>

\* handlePacket, case *packet.CommandRequest: the validation and the start of
\* the assignment s.cmdOrigin = pk.CommandOrigin.
LoopHandleCommandRequest ==
    /\ ~crashed
    /\ loopPc = "dispatch"
    /\ pk.id = "CommandRequest"
    /\ IF handleCommandRequestErr(pk)
         THEN /\ loopPc' = "close"
              /\ exitBy' = "handlerError"
              /\ UNCHANGED <<cmdOrigin, lastAccepted>>
         ELSE /\ cmdOrigin' \in TornOrigins(cmdOrigin, pk.CommandOrigin)
              /\ lastAccepted' = pk.CommandOrigin
              /\ loopPc' = "record"
              /\ UNCHANGED exitBy
    /\ UNCHANGED <<pk, controllableClosed, peerVars, srvVars, chatVars, execVars,
                   pendingExec, closeVars, writeVars, commands, crashed, paramVars, outputVars>>

\* handleCommandRequest with the call of ExecuteCommand placed before the
\* assignment of the origin.
LoopRecordOrigin_AfterForward ==
    /\ ~crashed
    /\ loopPc = "record"
    /\ loopPc' = "exec"
    /\ UNCHANGED <<pk, exitBy, controllableClosed, cmdOrigin, peerVars, srvVars, callVars,
                   closeVars, writeVars, commands, crashed, paramVars, outputVars>>

\* The assignment s.cmdOrigin = pk.CommandOrigin is complete.
LoopRecordOrigin ==
    /\ ~crashed
    /\ loopPc = "record"
    /\ cmdOrigin' = pk.CommandOrigin
    /\ loopPc' = "exec"
    /\ UNCHANGED <<pk, exitBy, controllableClosed, peerVars, srvVars, callVars,
                   closeVars, writeVars, commands, crashed, paramVars, outputVars>>

\* s.c.ExecuteCommand(pk.CommandLine); the controllable sends the output later.
LoopExecuteCommand ==
    /\ ~crashed
    /\ loopPc = "exec"
    /\ execCount' = execCount + 1
    /\ lastExec' = pk.CommandLine
    /\ pendingExec' = pendingExec \cup {pk.CommandOrigin}
    /\ loopPc' = "read"
    /\ pk' = NoPacket
    /\ UNCHANGED <<exitBy, controllableClosed, cmdOrigin, peerVars, srvVars, chatVars,
                   lastAccepted, closeVars, writeVars, commands, crashed, paramVars, outputVars>>

\* s.c.ExecuteCommand(pk.CommandLine); the controllable sends the output
\* before it returns.
LoopExecuteCommandSend ==
    /\ ~crashed
    /\ loopPc = "exec"
    /\ execCount' = execCount + 1
    /\ lastExec' = pk.CommandLine
    /\ \E out \in SessionOutputs : WritePacket(CommandOutputPacket(out, cmdOrigin))
    /\ loopPc' = "read"
    /\ pk' = NoPacket
    /\ UNCHANGED <<exitBy, controllableClosed, cmdOrigin, peerVars, srvVars, chatVars,
                   lastAccepted, pendingExec, closeVars, commands, crashed, paramVars,
                   outputVars>>

\* handlePacket with an error returned from the default case.
LoopHandleOther_Fatal ==
    /\ ~crashed
    /\ loopPc = "dispatch"
    /\ pk.id \notin {"Text", "CommandRequest"}
    /\ loopPc' = "close"
    /\ exitBy' = "handlerError"
    /\ UNCHANGED <<pk, controllableClosed, cmdOrigin, peerVars, srvVars, callVars,
                   closeVars, writeVars, commands, crashed, paramVars, outputVars>>

\* handlePacket, default case: the packet is logged.
LoopHandleOther ==
    /\ ~crashed
    /\ loopPc = "dispatch"
    /\ pk.id \notin {"Text", "CommandRequest"}
    /\ loopPc' = "read"
    /\ pk' = NoPacket
    /\ UNCHANGED <<exitBy, controllableClosed, cmdOrigin, peerVars, srvVars, callVars,
                   closeVars, writeVars, commands, crashed, paramVars, outputVars>>

\* The deferred s.Close() of handlePackets.
LoopClose ==
    /\ ~crashed
    /\ loopPc = "close"
    /\ Close
    /\ loopPc' = "done"
    /\ UNCHANGED <<pk, exitBy, controllableClosed, cmdOrigin, peerVars, srvVars, callVars,
                   directCloses, writeVars, commands, crashed, paramVars, outputVars>>

LoopStep ==
    \/ LoopReadPacket
    \/ LoopReadError
    \/ LoopCheckClosed
    \/ LoopHandleText
    \/ LoopHandleCommandRequest
    \/ LoopRecordOrigin
    \/ LoopExecuteCommand
    \/ LoopExecuteCommandSend
    \/ LoopHandleOther
    \/ LoopClose

\* ---------------------------------------------------- the server thread
CanCall == ~crashed /\ srvPc = "idle" /\ calls < MaxCalls

\* The outcomes of Connection.WritePacket: a write on a closed connection
\* fails, a write to a peer that is gone may fail, no other write fails.
WriteErrors ==
    IF ConnClosed THEN {TRUE} ELSE IF peerGone THEN {TRUE, FALSE} ELSE {FALSE}

\* A sender that builds one packet and writes it.
Send(p) ==
    /\ CanCall
    /\ WritePacket(p)
    /\ calls' = calls + 1
    /\ UNCHANGED <<loopVars, controllableClosed, cmdOrigin, peerVars, srvPc, srvArg, srvErr, callVars,
                   closeVars, commands, crashed, paramVars, outputVars>>

\* The body of SendAvailableCommands: the packet is built from the registry
\* in the iteration order of the map and written, unless the mapping panics.
AvailableCommandsBody ==
    IF AvailableCommandsPanics(commands)
      THEN crashed' = TRUE /\ UNCHANGED writeVars
      ELSE /\ \E order \in Perms(DOMAIN commands) :
                 WritePacket(AvailableCommandsPacket(commands, order))
           /\ UNCHANGED crashed

\* Handle: go s.handlePackets()
Handle ==
    /\ ~crashed
    /\ srvPc = "idle"
    /\ loopPc = "idle"
    /\ loopPc' = "read"
    /\ srvPc' = "handle"
    /\ UNCHANGED <<pk, exitBy, controllableClosed, cmdOrigin, peerVars, srvArg, srvErr, calls, callVars,
                   closeVars, writeVars, commands, crashed, paramVars, outputVars>>

\* Handle: s.SendAvailableCommands()
HandleSendAvailableCommands ==
    /\ ~crashed
    /\ srvPc = "handle"
    /\ AvailableCommandsBody
    /\ srvPc' = "idle"
    /\ UNCHANGED <<loopVars, controllableClosed, cmdOrigin, peerVars, srvArg, srvErr, calls, callVars,
                   closeVars, commands, paramVars, outputVars>>

SendAvailableCommands ==
    /\ CanCall
    /\ AvailableCommandsBody
    /\ calls' = calls + 1
    /\ UNCHANGED <<loopVars, controllableClosed, cmdOrigin, peerVars, srvPc, srvArg, srvErr, callVars,
                   closeVars, commands, paramVars, outputVars>>

SendMessage == \E m \in OutMessages : Send(SendMessagePacket(m))
SendTip == \E m \in OutMessages : Send(SendTipPacket(m))
SendAnnouncement == \E m \in OutMessages : Send(SendAnnouncementPacket(m))
SendPopup == \E m \in OutMessages : Send(SendPopupPacket(m))
SendJukeBoxPopup == \E m \in OutMessages : Send(SendJukeBoxPopupPacket(m))

Durations == {<<10, 70, 20>>}

SendTitle == \E m \in OutMessages, d \in Durations : Send(SendTitlePacket(m, d[1], d[2], d[3]))
SendSubTitle == \E m \in OutMessages, d \in Durations : Send(SendSubTitlePacket(m, d[1], d[2], d[3]))
SendActionBarMessage ==
    \E m \in OutMessages, d \in Durations : Send(SendActionBarMessagePacket(m, d[1], d[2], d[3]))

SendNetherDimension == Send(ChangeDimensionPacket(DimensionNether))
SendEndDimension == Send(ChangeDimensionPacket(DimensionEnd))
SendOverworldDimension == Send(ChangeDimensionPacket(DimensionOverworld))

TransferTargets == {<<"10.0.0.1", 65537>>}

Transfer == \E t \in TransferTargets : Send(TransferPacket(t[1], t[2]))

\* Disconnect: the write of the disconnect packet.
Disconnect ==
    /\ CanCall
    /\ \E message \in DisconnectMessages :
          /\ WritePacket(DisconnectPacket(message))
          /\ srvArg' = message
    /\ srvErr' \in WriteErrors
    /\ srvPc' = "disconnect"
    /\ calls' = calls + 1
    /\ UNCHANGED <<loopVars, controllableClosed, cmdOrigin, peerVars, callVars,
                   closeVars, commands, crashed, paramVars, outputVars>>

\* Disconnect returning at a failed write, before the store of the flag.
DisconnectStore_OnlyIfWritten ==
    /\ ~crashed
    /\ srvPc = "disconnect"
    /\ controllableClosed' = (controllableClosed \/ ~srvErr)
    /\ srvPc' = "idle"
    /\ srvErr' = FALSE
    /\ UNCHANGED <<loopVars, cmdOrigin, peerVars, srvArg, calls, callVars,
                   closeVars, writeVars, commands, crashed, paramVars, outputVars>>

\* Disconnect: s.controllableClosed.Store(true), after which it returns.
DisconnectStore ==
    /\ ~crashed
    /\ srvPc = "disconnect"
    /\ controllableClosed' = TRUE
    /\ srvPc' = "idle"
    /\ srvErr' = FALSE
    /\ UNCHANGED <<loopVars, cmdOrigin, peerVars, srvArg, calls, callVars,
                   closeVars, writeVars, commands, crashed, paramVars, outputVars>>

\* SendCommandOutput called by the thread that ran a command: f is the
\* request whose execution produced the output (NoOrigin: none of them).
SendCommandOutput ==
    /\ CanCall
    /\ \E out \in SessionOutputs, f \in pendingExec \cup {NoOrigin} :
          /\ WritePacket(CommandOutputPacket(out, cmdOrigin))
          /\ pendingExec' = pendingExec \ {f}
    /\ calls' = calls + 1
    /\ UNCHANGED <<loopVars, controllableClosed, cmdOrigin, peerVars, srvPc, srvArg, srvErr, chatVars,
                   execVars, lastAccepted, closeVars, commands, crashed, paramVars, outputVars>>

\* Session.Close called by the server thread.
CloseDirect ==
    /\ ~crashed
    /\ srvPc = "idle"
    /\ directCloses < MaxDirectClose
    /\ Close
    /\ directCloses' = directCloses + 1
    /\ UNCHANGED <<loopVars, controllableClosed, cmdOrigin, peerVars, srvVars, callVars,
                   writeVars, commands, crashed, paramVars, outputVars>>

ServerStep ==
    \/ Handle
    \/ HandleSendAvailableCommands
    \/ SendAvailableCommands
    \/ SendMessage
    \/ SendTip
    \/ SendAnnouncement
    \/ SendPopup
    \/ SendJukeBoxPopup
    \/ SendTitle
    \/ SendSubTitle
    \/ SendActionBarMessage
    \/ SendNetherDimension
    \/ SendEndDimension
    \/ SendOverworldDimension
    \/ Transfer
    \/ Disconnect
    \/ DisconnectStore
    \/ SendCommandOutput
    \/ CloseDirect

Next ==
    \/ PeerSend
    \/ PeerDisconnect
    \/ LoopStep
    \/ ServerStep

Spec == Init /\ [][Next]_vars

\* The scheduler runs the loop's goroutine; the peer is under no obligation.
FairSpec == Spec /\ WF_vars(LoopStep)

\* ------------------------------------------ the parameter mapping alone
NoCommands == [alias \in {} |-> TpCommand]

\* The inner loop of SendAvailableCommands over one parameter list.
ParamInit ==
    /\ SessionInit
    /\ commands = NoCommands
    /\ params \in SeqsUpTo(ParamValues, MaxParams) \ {<<>>}
    /\ overload = <<>>
    /\ panicked = FALSE
    /\ OutputIdle

AppendParameter ==
    /\ ~panicked
    /\ Len(overload) < Len(params)
    /\ LET paramInfo == ParamInfo(params[Len(overload) + 1])
       IN  IF valueToParamType(paramInfo.Value).panic
             THEN panicked' = TRUE /\ UNCHANGED overload
             ELSE overload' = Append(overload, CommandParameter(paramInfo)) /\ UNCHANGED panicked
    /\ UNCHANGED <<sessionVars, params, outputVars>>

ParamNext == AppendParameter

ParamSpec == ParamInit /\ [][ParamNext]_vars

\* --------------------------------- the command output construction alone
OutputInit ==
    /\ SessionInit
    /\ commands = NoCommands
    /\ ParamIdle
    /\ output \in Outputs
    /\ outPacket = NoPacket

BuildCommandOutput ==
    /\ outPacket = NoPacket
    /\ \E o \in Origins : outPacket' = CommandOutputPacket(output, o)
    /\ UNCHANGED <<sessionVars, paramVars, output>>

OutputNext == BuildCommandOutput

OutputSpec == OutputInit /\ [][OutputNext]_vars

\* ================================================================ claims

\* C1: once Session.Close has been invoked by any path, Controllable.Close and
\* Connection.Close have each been invoked exactly once and the chat sink has
\* received exactly one departure announcement.
C1_CloseExactlyOnce ==
    closeCalls > 0 => (cCloseCalls = 1 /\ connCloseCalls = 1 /\ leftAnnounced = 1)

\* C2: a command request with the internal flag set is rejected: no call of
\* Controllable.ExecuteCommand is made for it, the only step the loop takes on
\* it is to return with a handler error, and the return of the loop closes the
\* Controllable and the Connection.
C2_InternalRejected ==
    [][ /\ (execCount' # execCount) => (pk.id = "CommandRequest" /\ ~pk.Internal)
        /\ (loopPc = "dispatch" /\ pk.id = "CommandRequest" /\ pk.Internal /\ loopPc' # loopPc)
              => (loopPc' = "close" /\ exitBy' = "handlerError" /\ execCount' = execCount)
        /\ (loopPc = "close" /\ loopPc' # loopPc)
              => (/\ loopPc' = "done"
                  /\ cCloseCalls' = cCloseCalls + 1
                  /\ connCloseCalls' = connCloseCalls + 1) ]_vars

C2_Witness ==
    /\ loopPc = "done"
    /\ exitBy = "handlerError"
    /\ pk.id = "CommandRequest"
    /\ pk.Internal
    /\ execCount = 0
    /\ cCloseCalls = 1
    /\ connCloseCalls = 1

\* C3: Controllable.Chat is called only for a text packet of type chat whose
\* source name is the display name of the peer, with the message of that
\* packet; a text packet of another type or with another source name makes the
\* loop return with a handler error and reaches no call of Chat.
C3_ChatOnlyValid ==
    [][ /\ (chatCount' # chatCount)
              => (/\ pk.id = "Text"
                  /\ pk.TextType = TextTypeChat
                  /\ pk.SourceName = DisplayName
                  /\ chatCount' = chatCount + 1
                  /\ lastChat' = pk.Message)
        /\ (/\ loopPc = "dispatch"
            /\ pk.id = "Text"
            /\ (pk.TextType # TextTypeChat \/ pk.SourceName # DisplayName)
            /\ loopPc' # loopPc)
              => (loopPc' = "close" /\ exitBy' = "handlerError" /\ chatCount' = chatCount) ]_vars

C3_Witness ==
    /\ chatCount = 1
    /\ lastChat = "hi"
    /\ loopPc = "done"
    /\ exitBy = "handlerError"
    /\ pk.id = "Text"
    /\ pk.TextType = TextTypeChat
    /\ pk.SourceName # DisplayName

\* C4: a command request with the internal flag unset has its line passed
\* unchanged to Controllable.ExecuteCommand, and its origin is in s.cmdOrigin
\* when that call is made; every command output written after that, while no
\* later request is being recorded (also the one written during
\* ExecuteCommand), carries the origin of the last accepted request.
C4_OriginRecorded ==
    [][ /\ (loopPc = "dispatch" /\ pk.id = "CommandRequest" /\ ~pk.Internal /\ loopPc' # loopPc)
              => (loopPc' = "record" /\ lastAccepted' = pk.CommandOrigin)
        /\ (loopPc = "record" /\ loopPc' # loopPc)
              => (loopPc' = "exec" /\ cmdOrigin' = pk.CommandOrigin /\ execCount' = execCount)
        /\ (loopPc = "exec" /\ loopPc' # loopPc)
              => (/\ execCount' = execCount + 1
                  /\ lastExec' = pk.CommandLine
                  /\ cmdOrigin = pk.CommandOrigin)
        /\ (execCount' # execCount) => (loopPc = "exec" /\ cmdOrigin = pk.CommandOrigin)
        /\ (/\ writeCount' # writeCount
            /\ lastWrite'.id = "CommandOutput"
            /\ loopPc # "record"
            /\ lastAccepted # NoOrigin)
              => lastWrite'.CommandOrigin = lastAccepted ]_vars

C4_Witness ==
    /\ execCount = 2
    /\ lastExec = "/say"
    /\ lastAccepted = <<2, "b">>
    /\ loopPc = "read"
    /\ lastWrite.id = "CommandOutput"
    /\ lastWrite.CommandOrigin = <<2, "b">>

\* C5: the command output written for the execution of a request carries the
\* origin of that same request, whatever the loop has accepted in between.
C5_OutputToRequester ==
    [][ /\ \A f \in pendingExec \ pendingExec' :
              lastWrite'.id = "CommandOutput" /\ lastWrite'.CommandOrigin = f
        /\ (loopPc = "exec" /\ writeCount' # writeCount /\ loopPc' = "read")
              => lastWrite'.CommandOrigin = pk.CommandOrigin ]_vars

\* C6: the packet built from an output with n success messages and m errors
\* has n+m entries, the first n the success messages in order and flagged
\* successful, the last m the error texts in order and flagged unsuccessful,
\* and a success count of n.
C6_OutputEntries ==
    outPacket # NoPacket =>
        LET n == Len(output.messages)
            m == Len(output.errors)
            e == outPacket.OutputMessages
        IN  /\ outPacket.id = "CommandOutput"
            /\ Len(e) = n + m
            /\ \A i \in 1..n : e[i].Success /\ e[i].Message = output.messages[i]
            /\ \A j \in 1..m : ~e[n + j].Success /\ e[n + j].Message = ErrorText(output.errors[j])
            /\ outPacket.SuccessCount = n

C6_Witness ==
    /\ output = [messages |-> <<"m2", "m1">>, errors |-> <<"E1">>]
    /\ outPacket # NoPacket
    /\ Len(outPacket.OutputMessages) = 3
    /\ outPacket.SuccessCount = 2

\* C7: Disconnect(message) writes one disconnect packet that carries the
\* message, with the hide flag set exactly when the message is empty; it
\* writes nothing else, the closed flag is true when it returns, and the flag
\* never goes back to false.
C7_Disconnect ==
    [][ /\ (srvPc = "idle" /\ srvPc' = "disconnect")
              => (/\ writeCount' = writeCount + 1
                  /\ lastWrite' = [id |-> "Disconnect",
                                   HideDisconnectionScreen |-> (srvArg' = ""),
                                   Message |-> srvArg'])
        /\ (srvPc = "disconnect" /\ srvPc' # srvPc)
              => (srvPc' = "idle" /\ controllableClosed' /\ writeCount' = writeCount)
        /\ controllableClosed => controllableClosed' ]_vars

C7_Witness ==
    /\ srvPc = "idle"
    /\ srvArg = "banned"
    /\ controllableClosed
    /\ writeCount = 1
    /\ lastWrite = [id |-> "Disconnect", HideDisconnectionScreen |-> FALSE, Message |-> "banned"]

\* C8: once the closed flag is true, no sender calls WritePacket any more.
C8_NoWriteAfterClosedFlag ==
    [][ (writeCount' # writeCount) => ~controllableClosed ]_vars

\* C9: once Disconnect has set the closed flag of a session whose loop is
\* running, the loop eventually returns and Session.Close has closed the
\* Controllable and the Connection (unless a panic has ended the process).
C9_DisconnectCloses ==
    (controllableClosed /\ loopPc # "idle")
        ~> (crashed \/ (loopPc = "done" /\ cCloseCalls > 0 /\ connCloseCalls > 0))

\* C10: valueToParamType yields a classification for every parameter value
\* and never panics.
C10_MappingTotal == ~panicked

\* The classification the first-match-wins order prescribes for a value.
C11_Reference(i) ==
    IF i.kind \in IntKinds THEN [t |-> CommandArgTypeInt, enum |-> ZeroEnum]
    ELSE IF i.kind \in FloatKinds THEN [t |-> CommandArgTypeFloat, enum |-> ZeroEnum]
    ELSE IF i.kind = "string" THEN [t |-> CommandArgTypeString, enum |-> ZeroEnum]
    ELSE IF i.kind = "bool"
      THEN [t |-> NoArgType, enum |-> [Type |-> "bool", Options |-> <<"true", "1", "false", "0">>]]
    ELSE IF i.kind = "vec3" THEN [t |-> CommandArgTypePosition, enum |-> ZeroEnum]
    ELSE IF i.isParameter /\ i.Type \in {"player", "target"}
      THEN [t |-> CommandArgTypeTarget, enum |-> ZeroEnum]
    ELSE IF i.isEnum THEN [t |-> NoArgType, enum |-> [Type |-> i.Type, Options |-> i.Options]]
    ELSE [t |-> CommandArgTypeValue, enum |-> ZeroEnum]

\* C11: every parameter the mapping has been applied to has the type code and
\* the enum of the first-match-wins reference classification.
C11_AgreesWithReference ==
    \A n \in 1..Len(params) :
        (n <= Len(overload) \/ (n = Len(overload) + 1 /\ panicked)) =>
            /\ n <= Len(overload)
            /\ overload[n].Type.base = C11_Reference(params[n]).t
            /\ overload[n].Enum = C11_Reference(params[n]).enum

\* The descriptors of a catalog packet are those of the keys that are the name
\* of their command, none of them twice or under an alias of another.
C12_Deduplicated(cs) ==
    /\ \A n \in 1..Len(cs) :
          cs[n].Name \in DOMAIN commands /\ commands[cs[n].Name].Name = cs[n].Name
    /\ \A k \in DOMAIN commands : commands[k].Name = k => \E n \in 1..Len(cs) : cs[n].Name = k
    /\ \A n, m \in 1..Len(cs) :
          n # m => (/\ cs[n].Name # cs[m].Name
                    /\ \A a \in 1..Len(cs[m].Aliases) : cs[n].Name # cs[m].Aliases[a])

\* C12: every call of SendAvailableCommands, from Handle or direct, writes one
\* catalog packet, which holds a descriptor only for the keys that are the
\* name of their command and no command more than once.
C12_CatalogDeduplicated ==
    [][ (HandleSendAvailableCommands \/ SendAvailableCommands)
            => (/\ writeCount' = writeCount + 1
                /\ lastWrite'.id = "AvailableCommands"
                /\ C12_Deduplicated(lastWrite'.Commands)) ]_vars

\* C13: the step of the loop on a text packet of type chat whose source is the
\* display name of the peer makes one call of Controllable.Chat with the
\* message of the packet, writes nothing, leaves the closed flag, the command
\* origin and the close calls as they are, and takes the loop to its next
\* read.
C13_ChatForwarded ==
    [][ (/\ loopPc = "dispatch"
         /\ pk.id = "Text"
         /\ pk.TextType = TextTypeChat
         /\ pk.SourceName = DisplayName
         /\ loopPc' # loopPc)
            => (/\ chatCount' = chatCount + 1
                /\ lastChat' = pk.Message
                /\ loopPc' = "read"
                /\ exitBy' = "none"
                /\ UNCHANGED <<writeVars, controllableClosed, cmdOrigin, lastAccepted,
                               execVars, closeVars>>) ]_vars

C13_Witness ==
    /\ chatCount = 1
    /\ lastChat = "hi"
    /\ loopPc = "check"
    /\ sent = 2
    /\ execCount = 0
    /\ writeCount = 0
    /\ closeCalls = 0
    /\ ~controllableClosed

\* C14: each text sender writes a text packet of its own sub-kind that carries
\* its text: SendMessage raw, SendTip tip, SendAnnouncement announcement,
\* SendPopup popup, SendJukeBoxPopup jukebox popup.
C14_TextSenders ==
    [][ /\ SendMessage => (lastWrite'.id = "Text" /\ lastWrite'.TextType = "raw")
        /\ SendTip => (lastWrite'.id = "Text" /\ lastWrite'.TextType = "tip")
        /\ SendAnnouncement => (lastWrite'.id = "Text" /\ lastWrite'.TextType = "announcement")
        /\ SendPopup => (lastWrite'.id = "Text" /\ lastWrite'.TextType = "popup")
        /\ SendJukeBoxPopup => (lastWrite'.id = "Text" /\ lastWrite'.TextType = "jukebox_popup")
        /\ (SendMessage \/ SendTip \/ SendAnnouncement \/ SendPopup \/ SendJukeBoxPopup)
              => lastWrite'.Message \in OutMessages ]_vars

\* C15: the loop calls Session.Close once when it returns, whether on a read
\* error, on the closed flag or on a handler error, and not before; after it
\* has returned it calls neither Chat nor ExecuteCommand, and an iteration
\* whose read fails calls neither.
C15_LoopClosesOnce ==
    [][ /\ closeCalls' - directCloses' = (IF loopPc' = "done" THEN 1 ELSE 0)
        /\ (loopPc' = "close" /\ loopPc # "close")
              => (/\ loopPc \in {"read", "check", "dispatch"}
                  /\ exitBy' \in {"readError", "closedFlag", "handlerError"})
        /\ (loopPc = "read" /\ loopPc' \notin {"read", "check"})
              => (loopPc' = "close" /\ exitBy' = "readError" /\ UNCHANGED <<chatVars, execVars>>)
        /\ (loopPc = "close" /\ loopPc' # loopPc) => loopPc' = "done"
        /\ (loopPc \in {"close", "done"})
              => (loopPc' \in {"close", "done"} /\ UNCHANGED <<chatVars, execVars>>) ]_vars

C15_Witness ==
    /\ loopPc = "done"
    /\ exitBy = "readError"
    /\ closeCalls = 1
    /\ directCloses = 0
    /\ chatCount = 1
    /\ cCloseCalls = 1
    /\ connCloseCalls = 1

\* C16: a packet whose flag test finds the closed flag true is not dispatched:
\* the loop returns and calls neither Chat nor ExecuteCommand for it.  With
\* the flag true a handler is called only for the packet that had passed the
\* test before, and the loop does not reach a handler again after that, so at
\* most one handler call follows a completed Disconnect.
C16_NoDispatchAfterFlag ==
    [][ /\ (controllableClosed /\ loopPc = "check" /\ loopPc' # loopPc)
              => (/\ loopPc' = "close"
                  /\ exitBy' = "closedFlag"
                  /\ UNCHANGED <<chatVars, execVars>>)
        /\ (controllableClosed /\ (chatCount' # chatCount \/ execCount' # execCount))
              => (loopPc \in {"dispatch", "exec"} /\ loopPc' = "read")
        /\ (controllableClosed /\ loopPc \in {"idle", "read", "check", "close", "done"})
              => (loopPc' \notin {"dispatch", "record", "exec"}
                  /\ UNCHANGED <<chatVars, execVars>>) ]_vars

C16_Witness ==
    /\ controllableClosed
    /\ srvPc = "idle"
    /\ loopPc = "done"
    /\ exitBy = "closedFlag"
    /\ pk.id = "Text"
    /\ pk.TextType = TextTypeChat
    /\ pk.SourceName = DisplayName
    /\ chatCount = 0
    /\ execCount = 0

\* C17: the step of the loop on a packet that is neither a text packet nor a
\* command request calls nothing on the Controllable, writes nothing, leaves
\* the closed flag and the command origin as they are, closes nothing and
\* takes the loop to its next read.
C17_OtherPacketIgnored ==
    [][ (loopPc = "dispatch" /\ pk.id \notin {"Text", "CommandRequest"} /\ loopPc' # loopPc)
            => (/\ loopPc' = "read"
                /\ exitBy' = "none"
                /\ UNCHANGED <<chatVars, execVars, pendingExec, writeVars, controllableClosed,
                               cmdOrigin, lastAccepted, closeVars>>) ]_vars

C17_Witness ==
    /\ loopPc = "check"
    /\ sent = 2
    /\ chatCount = 0
    /\ execCount = 0
    /\ writeCount = 0
    /\ closeCalls = 0
    /\ ~controllableClosed
    /\ cmdOrigin = ZeroOrigin

\* C18: a write that fails (the connection is closed or the peer is gone) is
\* swallowed: the step that makes it closes nothing, ends no loop and no
\* process, and moves the loop only from a handler back to its read; a
\* Disconnect whose write failed still stores the closed flag and returns;
\* of the transport failures only a failed read makes the loop return.
C18_WriteFailureSwallowed ==
    [][ /\ (writeCount' # writeCount /\ (ConnClosed \/ peerGone))
             => (/\ UNCHANGED <<closeVars, exitBy>>
                 /\ ~crashed'
                 /\ loopPc' = loopPc \/ (loopPc = "exec" /\ loopPc' = "read"))
        /\ (srvPc = "disconnect" /\ srvErr /\ srvPc' # srvPc)
             => (srvPc' = "idle" /\ controllableClosed')
        /\ (srvErr' /\ ~srvErr) => UNCHANGED <<loopVars, closeVars, controllableClosed>>
        /\ (exitBy' = "readError" /\ exitBy # "readError")
             => (loopPc = "read" /\ (ConnClosed \/ (peerGone /\ inbox = NoPacket))) ]_vars

C18_Witness ==
    /\ srvPc = "disconnect"
    /\ srvErr
    /\ lastWrite = DisconnectPacket(srvArg)
    /\ ~controllableClosed
    /\ loopPc = "check"
    /\ exitBy = "none"
    /\ closeCalls = 0

\* C19: once Connection.Close has been called, no step calls WritePacket on
\* the connection, whatever the interleaving of the loop and the senders.
C19_NoWriteAfterConnClose ==
    [][ (writeCount' # writeCount) => ~ConnClosed ]_vars

\* C20: the step of the loop that rejects a packet (a command request with
\* the internal flag, or a text packet that fails its validation) leaves the
\* command origin as it is; the origin changes only in the steps of the loop
\* that handle a command request without the internal flag; and once the
\* loop has returned on a rejected packet the origin is the one of the last
\* accepted request (the zero value when there was none).
C20_RejectedKeepsOrigin ==
    [][ /\ (/\ loopPc = "dispatch"
            /\ \/ (pk.id = "CommandRequest" /\ pk.Internal)
               \/ (pk.id = "Text" /\ handleTextErr(pk))
            /\ loopPc' # loopPc)
             => (/\ UNCHANGED <<cmdOrigin, lastAccepted, execVars, pendingExec>>
                 /\ loopPc' = "close")
        /\ (cmdOrigin' # cmdOrigin)
             => (/\ loopPc \in {"dispatch", "record"}
                 /\ pk.id = "CommandRequest"
                 /\ ~pk.Internal
                 /\ lastAccepted' = pk.CommandOrigin)
        /\ (loopPc' \in {"close", "done"} /\ exitBy' = "handlerError")
             => cmdOrigin' = (IF lastAccepted' = NoOrigin THEN ZeroOrigin ELSE lastAccepted') ]_vars

C20_Witness ==
    /\ loopPc = "done"
    /\ exitBy = "handlerError"
    /\ pk.id = "CommandRequest"
    /\ pk.Internal
    /\ pk.CommandOrigin = <<1, "a">>
    /\ execCount = 1
    /\ lastAccepted = <<2, "b">>
    /\ cmdOrigin = <<2, "b">>

====
